---- MODULE Spec2Model ----
(***************************************************************************)
(* Model of the inventory projection engine (InventoryProjectionService). *)
(*                                                                         *)
(* Numbers.  Every quantity of stock or demand is an integer number of     *)
(* 1/Scale units (Scale = 40), so that the seasonal factors (multiples of  *)
(* 0.05), the halves of the status thresholds and the 1.5 of the reorder   *)
(* point are exact.  Math.sqrt is a floor square root at a resolution of   *)
(* 1/20 unit.  Raw observation and forecast values are whole units.        *)
(*                                                                         *)
(* Time.  An instant is a number of quarter days; a calendar date is the   *)
(* day index counted from 1 January of a year of 365 days.  The clock is   *)
(* [day, tod, tz]: the UTC date, the UTC time of day in quarter days and   *)
(* the offset of local time from UTC in quarter days.                      *)
(***************************************************************************)
EXTENDS Integers, Sequences, FiniteSets, TLC

\* null, for a nullable number: a value no quantity of the model takes.
NULL == 0 - 999999

Scale == 40

MaxObs == 2
MaxForecasts == 2

QuartersPerDay == 4
DaysPerYear == 365

VARIABLES now, observations, forecasts, projections, summary, classified,
          inventorySeries, inventoryData, forecastData, call, results,
          dbNodes, dbNodeTypes, dbRelationships, nodes, edges, nodesSig, edgesSig,
          mounted, filters, storedFilters, lastSaveOk, chartParams,
          chartInventoryData, chartForecastData, monthlyData

engineVars == <<observations, forecasts, projections, summary, classified>>
serviceVars == <<inventorySeries, inventoryData, forecastData, call, results>>
networkVars == <<dbNodes, dbNodeTypes, dbRelationships, nodes, edges, nodesSig, edgesSig>>
workbenchVars == <<mounted, filters, storedFilters, lastSaveOk, chartParams>>
chartVars == <<chartInventoryData, chartForecastData, monthlyData>>
uiVars == <<networkVars, workbenchVars, chartVars>>
vars == <<now, observations, forecasts, projections, summary, classified,
          inventorySeries, inventoryData, forecastData, call, results, uiVars>>

(***************************************************************************)
(* Dates                                                                   *)
(***************************************************************************)

\* Date.getTime() of new Date(postdate) for a 'YYYY-MM-DD' string: UTC midnight.
postdateTime(postdate) == postdate * QuartersPerDay

\* new Date(startDate); setDate(getDate() + day): the same local time of day,
\* day calendar days later.
currentDateTime(clock, day) == (clock.day + day) * QuartersPerDay + clock.tod

\* date.toISOString().split('T')[0]: the UTC calendar date of an instant.
toISODate(t) == t \div QuartersPerDay

\* The local calendar date of an instant, as getMonth() sees it.
localDate(clock, t) == (t + clock.tz) \div QuartersPerDay

\* Date.getMonth() + 1 of a calendar date.
monthOfDate(date) ==
  LET doy == date % DaysPerYear IN
  IF doy < 31 THEN 1 ELSE IF doy < 59 THEN 2 ELSE IF doy < 90 THEN 3
  ELSE IF doy < 120 THEN 4 ELSE IF doy < 151 THEN 5 ELSE IF doy < 181 THEN 6
  ELSE IF doy < 212 THEN 7 ELSE IF doy < 243 THEN 8 ELSE IF doy < 273 THEN 9
  ELSE IF doy < 304 THEN 10 ELSE IF doy < 334 THEN 11 ELSE 12

(***************************************************************************)
(* Arithmetic helpers                                                      *)
(***************************************************************************)

Abs(x) == IF x < 0 THEN -x ELSE x

Max(a, b) == IF a >= b THEN a ELSE b

\* x || 0 for a nullable number.
orZero(x) == IF x = NULL THEN 0 ELSE x

\* JavaScript truthiness of a nullable number.
truthy(x) == x # NULL /\ x # 0

RECURSIVE sqrtSearch(_, _, _)
sqrtSearch(x, lo, hi) ==
  IF lo >= hi THEN lo
  ELSE LET mid == (lo + hi + 1) \div 2 IN
       IF mid * mid <= x THEN sqrtSearch(x, mid, hi) ELSE sqrtSearch(x, lo, mid - 1)

\* Math.sqrt, rounded down to an integer.
floorSqrt(x) == sqrtSearch(x, 0, IF x < 46340 THEN x ELSE 46340)

(***************************************************************************)
(* getSeasonalAdjustment: the factor of the month, times Scale.            *)
(***************************************************************************)

\* Mutant: July has the factor of June and August.
seasonalFactorsFlatJuly ==
  [m \in 1..12 |->
     CASE m = 1 -> 36 [] m = 2 -> 38 [] m = 3 -> 40 [] m = 4 -> 42
       [] m = 5 -> 44 [] m = 6 -> 46 [] m = 7 -> 46 [] m = 8 -> 46
       [] m = 9 -> 42 [] m = 10 -> 44 [] m = 11 -> 50 [] m = 12 -> 52]

seasonalFactors ==
  [m \in 1..12 |->
     CASE m = 1 -> 36 [] m = 2 -> 38 [] m = 3 -> 40 [] m = 4 -> 42
       [] m = 5 -> 44 [] m = 6 -> 46 [] m = 7 -> 48 [] m = 8 -> 46
       [] m = 9 -> 42 [] m = 10 -> 44 [] m = 11 -> 50 [] m = 12 -> 52]

\* Mutant: getMonth() used without the + 1 (no entry 0 in the table: 1.0).
getSeasonalAdjustmentZeroBased(clock, t) ==
  LET month == monthOfDate(localDate(clock, t)) - 1
  IN IF month = 0 THEN Scale ELSE seasonalFactors[month]

getSeasonalAdjustment(clock, t) == seasonalFactors[monthOfDate(localDate(clock, t))]

(***************************************************************************)
(* getDailyDemand                                                          *)
(***************************************************************************)

RECURSIVE findExact(_, _)
\* forecasts.find(f => f.postdate === dateStr): the first match as a
\* one-element sequence, or the empty sequence for undefined.
findExact(fs, dateStr) ==
  IF fs = <<>> THEN <<>>
  ELSE IF Head(fs).postdate = dateStr THEN <<Head(fs)>>
  ELSE findExact(Tail(fs), dateStr)

\* exactMatch && exactMatch.forecast
exactMatchUsed(exactMatch) == exactMatch # <<>> /\ truthy(exactMatch[1].forecast)

RECURSIVE insertSorted(_, _)
\* Insert f after every element whose postdate is not later (stable).
insertSorted(sorted, f) ==
  IF sorted = <<>> THEN <<f>>
  ELSE IF postdateTime(f.postdate) < postdateTime(Head(sorted).postdate)
       THEN <<f>> \o sorted
       ELSE <<Head(sorted)>> \o insertSorted(Tail(sorted), f)

RECURSIVE sortByPostdate(_, _)
\* .filter(f => f.forecast !== null).sort(by postdate), a stable sort.
sortByPostdate(fs, acc) ==
  IF fs = <<>> THEN acc
  ELSE sortByPostdate(Tail(fs),
         IF Head(fs).forecast # NULL THEN insertSorted(acc, Head(fs)) ELSE acc)

\* Mutant: curr replaces prev also when it is equally near.
nearerOrEqual(prev, curr, t) ==
  IF Abs(postdateTime(curr.postdate) - t) <= Abs(postdateTime(prev.postdate) - t)
  THEN curr ELSE prev

\* The reducer of getDailyDemand: curr replaces prev only when strictly nearer.
nearer(prev, curr, t) ==
  IF Abs(postdateTime(curr.postdate) - t) < Abs(postdateTime(prev.postdate) - t)
  THEN curr ELSE prev

RECURSIVE reduceClosest(_, _, _)
reduceClosest(prev, rest, t) ==
  IF rest = <<>> THEN prev
  ELSE reduceClosest(nearer(prev, Head(rest), t), Tail(rest), t)

\* Mutant: an exact match with a null forecast gives the demand 0.
getDailyDemandNullAsZero(fs, t) ==
  IF Len(fs) = 0 THEN 0
  ELSE LET exactMatch == findExact(fs, toISODate(t)) IN
       IF exactMatch # <<>> /\ exactMatch[1].forecast = NULL THEN 0
       ELSE IF exactMatchUsed(exactMatch) THEN exactMatch[1].forecast
       ELSE LET sortedForecasts == sortByPostdate(fs, <<>>) IN
            IF sortedForecasts = <<>> THEN 0
            ELSE orZero(reduceClosest(Head(sortedForecasts),
                                      Tail(sortedForecasts), t).forecast)

getDailyDemand(fs, t) ==
  IF Len(fs) = 0 THEN 0
  ELSE LET exactMatch == findExact(fs, toISODate(t)) IN
       IF exactMatchUsed(exactMatch) THEN exactMatch[1].forecast
       ELSE LET sortedForecasts == sortByPostdate(fs, <<>>) IN
            IF sortedForecasts = <<>> THEN 0
            ELSE orZero(reduceClosest(Head(sortedForecasts),
                                      Tail(sortedForecasts), t).forecast)

\* getDailyDemand reaches the filter-and-sort statement.
reachesSort(fs, t) == Len(fs) # 0 /\ ~exactMatchUsed(findExact(fs, toISODate(t)))

\* Mutant: the sorted array is the argument itself, left filtered and sorted.
forecastsAfterSortInPlace(fs) == sortByPostdate(fs, <<>>)

\* The argument after forecasts.filter(...).sort(...): filter returns a new
\* array and sort orders that array in place, so the argument keeps its
\* elements and their order.
forecastsAfterSort(fs) == fs

(***************************************************************************)
(* calculateEnhancedSafetyStock                                            *)
(***************************************************************************)

ServiceLevelPct == 165
LeadTime == 14
DefaultSafetyStock == 10

RECURSIVE sumDemands(_)
sumDemands(fs) ==
  IF fs = <<>> THEN 0 ELSE orZero(Head(fs).forecast) + sumDemands(Tail(fs))

RECURSIVE sumSquares(_)
sumSquares(fs) ==
  IF fs = <<>> THEN 0
  ELSE orZero(Head(fs).forecast) * orZero(Head(fs).forecast) + sumSquares(Tail(fs))

\* serviceLevel^2 * (leadTime / 7) at a resolution of 1/20 unit: 2178.
safetyCoefficient ==
  (ServiceLevelPct * ServiceLevelPct * LeadTime * (Scale \div 2) * (Scale \div 2))
    \div (100 * 100 * 7)

\* serviceLevel * stdDev * sqrt(leadTime / 7), in 1/Scale units.  With n
\* demands of sum S and sum of squares Q the variance is (n*Q - S*S) / n^2.
variabilityStock(fs) ==
  LET n == Len(fs)
      S == sumDemands(fs)
      Q == sumSquares(fs)
  IN 2 * floorSqrt((safetyCoefficient * (n * Q - S * S)) \div (n * n))

\* Mutant: no default safety stock without forecasts.
calculateEnhancedSafetyStockNoDefault(fs) ==
  IF Len(fs) = 0 THEN 0
  ELSE Max(variabilityStock(fs), DefaultSafetyStock * Scale)

calculateEnhancedSafetyStock(fs) ==
  IF Len(fs) = 0 THEN DefaultSafetyStock * Scale
  ELSE Max(variabilityStock(fs), DefaultSafetyStock * Scale)

(***************************************************************************)
(* determineEnhancedInventoryStatus                                        *)
(***************************************************************************)

\* Mutant: the critical boundary is exclusive.
determineEnhancedInventoryStatusStrict(projectedInventory, enhancedSafetyStock, reorderPoint) ==
  IF projectedInventory <= 0 THEN "stockout"
  ELSE IF 2 * projectedInventory < enhancedSafetyStock THEN "critical"
  ELSE IF projectedInventory <= enhancedSafetyStock THEN "warning"
  ELSE "optimal"

determineEnhancedInventoryStatus(projectedInventory, enhancedSafetyStock, reorderPoint) ==
  IF projectedInventory <= 0 THEN "stockout"
  ELSE IF 2 * projectedInventory <= enhancedSafetyStock THEN "critical"
  ELSE IF projectedInventory <= enhancedSafetyStock THEN "warning"
  ELSE "optimal"

(***************************************************************************)
(* calculateInventoryTimeline                                              *)
(***************************************************************************)

RECURSIVE sumValues(_)
\* inventoryData.reduce((sum, item) => sum + (item.value || 0), 0)
sumValues(items) ==
  IF items = <<>> THEN 0 ELSE orZero(Head(items).value) + sumValues(Tail(items))

\* Mutant: a baseline of 0 is replaced by one unit.
currentInventoryOfDefaulted(items) ==
  IF sumValues(items) = 0 THEN Scale ELSE sumValues(items) * Scale

currentInventoryOf(items) == sumValues(items) * Scale

\* Mutant: the loop stops one day early.
loopConditionStrict(day, projectionDays) == day < projectionDays

\* for (let day = 0; day <= projectionDays; day++)
loopCondition(day, projectionDays) == day <= projectionDays

\* baseDailyDemand * seasonalAdjustment
adjustedDemandOf(clock, fs, day) ==
  getDailyDemand(fs, currentDateTime(clock, day))
    * getSeasonalAdjustment(clock, currentDateTime(clock, day))

\* Mutant: the demand is subtracted from the running total.
accumulateSubtract(cumulativeDemand, adjustedDemand) == cumulativeDemand - adjustedDemand

\* cumulativeDemand += adjustedDemand
accumulate(cumulativeDemand, adjustedDemand) == cumulativeDemand + adjustedDemand

\* Mutant: the reorder point is twice the safety stock.
reorderPointDouble(enhancedSafetyStock) == enhancedSafetyStock * 2

\* enhancedSafetyStock * 1.5
reorderPointOf(enhancedSafetyStock) == (enhancedSafetyStock * 3) \div 2

\* Mutant: the capacity is the current inventory itself.
maxCapacityOfBaseline(currentInventory) == currentInventory

\* const maxCapacity = currentInventory * 2
maxCapacityOf(currentInventory) == currentInventory * 2

\* Mutant: only half of the missing quantity is replenished.
replenishmentQuantityOfHalf(maxCapacity, projectedInventory) ==
  (maxCapacity - projectedInventory) \div 2

\* const replenishmentQuantity = maxCapacity - projectedInventory
replenishmentQuantityOf(maxCapacity, projectedInventory) == maxCapacity - projectedInventory

\* Mutant: the replenishment is also simulated on day 0.
replenishedFromDayZero(projectedInventory, reorderPoint, currentInventory, day) ==
  IF projectedInventory <= reorderPoint
  THEN LET maxCapacity == currentInventory * 2
           replenishmentQuantity == maxCapacity - projectedInventory
       IN IF replenishmentQuantity > 0
          THEN projectedInventory + replenishmentQuantity
          ELSE projectedInventory
  ELSE projectedInventory

\* The simulated replenishment: the inventory after the reorder check.
replenished(projectedInventory, reorderPoint, currentInventory, day) ==
  IF projectedInventory <= reorderPoint /\ day > 0
  THEN LET maxCapacity == maxCapacityOf(currentInventory)
           replenishmentQuantity == replenishmentQuantityOf(maxCapacity, projectedInventory)
       IN IF replenishmentQuantity > 0
          THEN projectedInventory + replenishmentQuantity
          ELSE projectedInventory
  ELSE projectedInventory

\* Mutant: only the demand of the day is subtracted from the baseline.
projectedBeforeReplenishmentDaily(currentInventory, cumulativeDemand, adjustedDemand) ==
  currentInventory - adjustedDemand

\* let projectedInventory = currentInventory - cumulativeDemand: the value is
\* computed from the baseline on every day (runningInventory is assigned at
\* the end of the body and never read).
projectedBeforeReplenishment(currentInventory, cumulativeDemand, adjustedDemand) ==
  currentInventory - cumulativeDemand

\* Mutant: the internal value is emitted as it is.
emittedInventoryUnclamped(projectedInventory) == projectedInventory

\* projected_inventory: Math.max(0, projectedInventory)
emittedInventory(projectedInventory) == Max(0, projectedInventory)

\* Mutant: the status is determined before the replenishment.
projectionOfDayStatusFirst(clock, currentInventory, enhancedSafetyStock, day, adjustedDemand, cumulativeDemand) ==
  LET reorderPoint == reorderPointOf(enhancedSafetyStock)
      beforeReplenishment ==
        projectedBeforeReplenishment(currentInventory, cumulativeDemand, adjustedDemand)
      projectedInventory ==
        replenished(beforeReplenishment, reorderPoint, currentInventory, day)
  IN [date |-> toISODate(currentDateTime(clock, day)),
      projected_inventory |-> emittedInventory(projectedInventory),
      forecast_demand |-> adjustedDemand,
      current_stock |-> currentInventory,
      cumulative_demand |-> cumulativeDemand,
      reorder_point |-> reorderPoint,
      safety_stock |-> enhancedSafetyStock,
      status |-> determineEnhancedInventoryStatus(beforeReplenishment,
                   enhancedSafetyStock, reorderPoint)]

\* The body of the loop for one day, given the cumulative demand of that day.
projectionOfDay(clock, currentInventory, enhancedSafetyStock, day, adjustedDemand, cumulativeDemand) ==
  LET reorderPoint == reorderPointOf(enhancedSafetyStock)
      projectedInventory ==
        replenished(projectedBeforeReplenishment(currentInventory, cumulativeDemand,
                                                 adjustedDemand),
                    reorderPoint, currentInventory, day)
  IN [date |-> toISODate(currentDateTime(clock, day)),
      projected_inventory |-> emittedInventory(projectedInventory),
      forecast_demand |-> adjustedDemand,
      current_stock |-> currentInventory,
      cumulative_demand |-> cumulativeDemand,
      reorder_point |-> reorderPoint,
      safety_stock |-> enhancedSafetyStock,
      status |-> determineEnhancedInventoryStatus(projectedInventory,
                   enhancedSafetyStock, reorderPoint)]

\* The days for which the body of the loop runs.
loopDays(projectionDays) ==
  {day \in 0..(projectionDays + 1) : loopCondition(day, projectionDays)}

RECURSIVE timelineLoop(_, _, _, _, _, _, _)
\* The iterations first..last of the loop, entered with the given running
\* cumulativeDemand; the range is split in halves, the second half entered
\* with the cumulativeDemand the first half ends with.
timelineLoop(clock, currentInventory, enhancedSafetyStock, fs, first, last, cumulativeDemand) ==
  IF first > last THEN <<>>
  ELSE IF first = last
  THEN LET adjustedDemand == adjustedDemandOf(clock, fs, first)
       IN <<projectionOfDay(clock, currentInventory, enhancedSafetyStock, first,
                            adjustedDemand,
                            accumulate(cumulativeDemand, adjustedDemand))>>
  ELSE LET mid == (first + last) \div 2
           head == timelineLoop(clock, currentInventory, enhancedSafetyStock, fs,
                                first, mid, cumulativeDemand)
       IN head \o timelineLoop(clock, currentInventory, enhancedSafetyStock, fs,
                               mid + 1, last, head[Len(head)].cumulative_demand)

calculateInventoryTimeline(clock, items, fs, projectionDays) ==
  timelineLoop(clock, currentInventoryOf(items), calculateEnhancedSafetyStock(fs),
               fs, 0, Cardinality(loopDays(projectionDays)) - 1, 0)

\* The forecast array after calculateInventoryTimeline: map and reduce do
\* not write to it, the only statement that reorders an array is the sort
\* of getDailyDemand.
forecastsAfterTimeline(clock, fs, projectionDays) ==
  IF \E day \in 0..projectionDays : reachesSort(fs, currentDateTime(clock, day))
  THEN forecastsAfterSort(fs)
  ELSE fs

(***************************************************************************)
(* getProjectionSummary                                                    *)
(***************************************************************************)

MediumRiskDays == 7

countStatus(ps, st) == Cardinality({i \in 1..Len(ps) : ps[i].status = st})

RECURSIVE minInventoryOf(_)
\* Math.min(...projections.map(p => p.projected_inventory)), ps not empty.
minInventoryOf(ps) ==
  IF Len(ps) = 1 THEN ps[1].projected_inventory
  ELSE LET m == minInventoryOf(Tail(ps)) IN
       IF ps[1].projected_inventory < m THEN ps[1].projected_inventory ELSE m

\* Mutant: seven critical days are already a medium risk.
riskLevelOfInclusive(stockoutDays, criticalDays) ==
  IF stockoutDays > 0 THEN "high"
  ELSE IF criticalDays >= MediumRiskDays THEN "medium" ELSE "low"

riskLevelOf(stockoutDays, criticalDays) ==
  IF stockoutDays > 0 THEN "high"
  ELSE IF criticalDays > MediumRiskDays THEN "medium" ELSE "low"

\* Mutant: totalDemand is read from the first day.
getProjectionSummaryFirstDemand(ps) ==
  IF Len(ps) = 0
  THEN [isNull |-> TRUE, stockoutDays |-> 0, criticalDays |-> 0, warningDays |-> 0,
        minInventory |-> 0, totalDemand |-> 0, riskLevel |-> "none"]
  ELSE [isNull |-> FALSE,
        stockoutDays |-> countStatus(ps, "stockout"),
        criticalDays |-> countStatus(ps, "critical"),
        warningDays |-> countStatus(ps, "warning"),
        minInventory |-> minInventoryOf(ps),
        totalDemand |-> ps[1].cumulative_demand,
        riskLevel |-> riskLevelOf(countStatus(ps, "stockout"),
                                  countStatus(ps, "critical"))]

\* isNull is the null returned for an empty array.
getProjectionSummary(ps) ==
  IF Len(ps) = 0
  THEN [isNull |-> TRUE, stockoutDays |-> 0, criticalDays |-> 0, warningDays |-> 0,
        minInventory |-> 0, totalDemand |-> 0, riskLevel |-> "none"]
  ELSE [isNull |-> FALSE,
        stockoutDays |-> countStatus(ps, "stockout"),
        criticalDays |-> countStatus(ps, "critical"),
        warningDays |-> countStatus(ps, "warning"),
        minInventory |-> minInventoryOf(ps),
        totalDemand |-> ps[Len(ps)].cumulative_demand,
        riskLevel |-> riskLevelOf(countStatus(ps, "stockout"),
                                  countStatus(ps, "critical"))]

(***************************************************************************)
(* calculateProjections                                                    *)
(***************************************************************************)

DefaultProjectionDays == 90

\* The absent (undefined) filter of ProjectionParams; '' is falsy as well.
NoFilter == ""

RECURSIVE orderByPostdate(_, _)
\* .order('postdate', { ascending: true }), rows of one date in table order.
orderByPostdate(rows, acc) ==
  IF rows = <<>> THEN acc
  ELSE orderByPostdate(Tail(rows), insertSorted(acc, Head(rows)))

\* inventory_series, with the optional product and location filters.
selectSeries(table, params) ==
  LET keep(s) == /\ (params.product_id # NoFilter => s.product_id = params.product_id)
                 /\ (params.location_id # NoFilter => s.location_id = params.location_id)
  IN SelectSeq(table, keep)

\* inventory_series_data .in('series_id', seriesIds)
selectInventoryData(table, series) ==
  LET keep(r) == \E i \in 1..Len(series) : series[i].id = r.series_id
  IN SelectSeq(table, keep)

\* forecast_with_fitted_history: postdate >= today (the UTC date), ordered by
\* postdate, with the optional product and location filters.
selectForecasts(table, params, clock) ==
  LET keep(f) == /\ f.postdate >= toISODate(currentDateTime(clock, 0))
                 /\ (params.product_id # NoFilter => f.product_id = params.product_id)
                 /\ (params.location_id # NoFilter => f.location_id = params.location_id)
  IN orderByPostdate(SelectSeq(table, keep), <<>>)

\* params.projection_days || 90
effectiveProjectionDays(projection_days) ==
  IF truthy(projection_days) THEN projection_days ELSE DefaultProjectionDays

\* Mutant: the observations are not filtered by series.
projectSeriesAllInventory(clock, series, invRows, fcRows, params) ==
  LET relevantForecasts(f) == /\ f.product_id = series.product_id
                              /\ f.location_id = series.location_id
  IN [product_id |-> series.product_id,
      location_id |-> series.location_id,
      warehouse_id |-> 1,
      projections |-> calculateInventoryTimeline(clock, invRows,
                        SelectSeq(fcRows, relevantForecasts),
                        effectiveProjectionDays(params.projection_days))]

\* The callback of inventorySeries.map for one series.
projectSeries(clock, series, invRows, fcRows, params) ==
  LET relevantInventoryData(inv) == inv.series_id = series.id
      relevantForecasts(f) == /\ f.product_id = series.product_id
                              /\ f.location_id = series.location_id
  IN [product_id |-> series.product_id,
      location_id |-> series.location_id,
      warehouse_id |-> 1,
      projections |-> calculateInventoryTimeline(clock,
                        SelectSeq(invRows, relevantInventoryData),
                        SelectSeq(fcRows, relevantForecasts),
                        effectiveProjectionDays(params.projection_days))]

\* The value calculateProjections resolves to when no query fails.
calculateProjections(clock, seriesTable, invTable, fcTable, params) ==
  LET series == selectSeries(seriesTable, params)
      invRows == selectInventoryData(invTable, series)
      fcRows == selectForecasts(fcTable, params, clock)
  IN [i \in 1..Len(series) |-> projectSeries(clock, series[i], invRows, fcRows, params)]

(***************************************************************************)
(* SupplyNetworkFlow: the local node and edge lists and their              *)
(* synchronisation with the rows of the database.  A flow node carries the *)
(* id and the data shown (label, type, type code, status); positions,      *)
(* colours and icons are left out.  Ids are integers, in the order in      *)
(* which localeCompare puts them.                                          *)
(***************************************************************************)

RECURSIVE findType(_, _)
\* dbNodeTypes.find(nt => nt.id === node.node_type_id), as a sequence.
findType(types, id) ==
  IF types = <<>> THEN <<>>
  ELSE IF Head(types).id = id THEN <<Head(types)>>
  ELSE findType(Tail(types), id)

\* The memo builtFlowNodes (node names are never empty: label is node_name).
builtFlowNodes(dbN, types) ==
  [i \in 1..Len(dbN) |->
     LET typeInfo == findType(types, dbN[i].node_type_id) IN
     [id |-> dbN[i].id,
      label |-> dbN[i].node_name,
      nodeType |-> dbN[i].node_type_id,
      nodeTypeCode |-> IF typeInfo = <<>> THEN "unknown" ELSE typeInfo[1].type_code,
      status |-> dbN[i].status]]

\* The memo builtFlowEdges.
builtFlowEdges(rels) ==
  [i \in 1..Len(rels) |->
     [id |-> rels[i].id,
      source |-> rels[i].source_node_id,
      target |-> rels[i].target_node_id,
      animated |-> rels[i].status = "active",
      leadTime |-> orZero(rels[i].lead_time_days),
      status |-> rels[i].status]]

\* a.length === b.length && a.every((n, i) => n.id === b[i]?.id)
sameNodeSet(a, b) == Len(a) = Len(b) /\ \A i \in 1..Len(a) : a[i].id = b[i].id

sameEdgeSet(a, b) == Len(a) = Len(b) /\ \A i \in 1..Len(a) : a[i].id = b[i].id

RECURSIVE insertByKey(_, _, _)
\* Insert the tuple x after every tuple whose key is not greater.
insertByKey(sorted, x, k) ==
  IF sorted = <<>> THEN <<x>>
  ELSE IF x[k] < Head(sorted)[k] THEN <<x>> \o sorted
  ELSE <<Head(sorted)>> \o insertByKey(Tail(sorted), x, k)

RECURSIVE sortByKey(_, _, _)
\* .sort((x, y) => String(x[k]).localeCompare(String(y[k])))
sortByKey(rows, k, acc) ==
  IF rows = <<>> THEN acc
  ELSE sortByKey(Tail(rows), k, insertByKey(acc, Head(rows), k))

\* nodesSignature: the string of the sorted node tuples followed by the
\* sorted type tuples; the two parts are kept as the fields of a record.
nodesSignature(dbN, types) ==
  [nodes |-> sortByKey([i \in 1..Len(dbN) |->
                          <<dbN[i].id, dbN[i].node_name, dbN[i].node_type_id,
                            dbN[i].status>>], 1, <<>>),
   types |-> sortByKey([i \in 1..Len(types) |->
                          <<"t", types[i].id, types[i].type_code>>], 2, <<>>)]

relsSignature(rels) ==
  sortByKey([i \in 1..Len(rels) |->
               <<rels[i].id, rels[i].source_node_id, rels[i].target_node_id,
                 rels[i].status, rels[i].lead_time_days,
                 rels[i].primary_transport_cost>>], 1, <<>>)

\* setNodes(prev => (sameNodeSet(prev, builtFlowNodes) ? prev : builtFlowNodes))
syncNodes(prev, built) == IF sameNodeSet(prev, built) THEN prev ELSE built

\* setEdges(prev => (sameEdgeSet(prev, builtFlowEdges) ? prev : builtFlowEdges))
syncEdges(prev, built) == IF sameEdgeSet(prev, built) THEN prev ELSE built

\* The local lists after a render with the given rows: an effect runs when
\* its signature differs from the one of the previous render.
nodesAfterRender(prev, sig, dbN, types) ==
  IF nodesSignature(dbN, types) # sig
  THEN syncNodes(prev, builtFlowNodes(dbN, types))
  ELSE prev

edgesAfterRender(prev, sig, rels) ==
  IF relsSignature(rels) # sig THEN syncEdges(prev, builtFlowEdges(rels)) ELSE prev

\* applyNodeChanges / applyEdgeChanges with a change of type 'remove'.
removeAt(list, k) == [i \in 1..(Len(list) - 1) |-> IF i < k THEN list[i] ELSE list[i + 1]]

(***************************************************************************)
(* SupplyWorkbench: the three filters, kept in the state of the component  *)
(* and under the key 'supplyWorkbenchFilters' of localStorage.  The stored *)
(* item is the empty sequence when the key is absent, else the sequence of *)
(* the one record written.                                                 *)
(***************************************************************************)

\* useState('') for the three filters.
NoFilters == [productId |-> "", locationId |-> "", customerId |-> ""]

\* getStoredFilters: the stored record, or {} when there is none.
getStoredFilters(stored) == IF stored = <<>> THEN NoFilters ELSE stored[1]

\* Mutant: the stored customer is not restored.
loadStoredFiltersNoCustomer(stored) ==
  [getStoredFilters(stored) EXCEPT !.customerId = ""]

\* The mount effect: every stored field that is truthy replaces the initial
\* '' of its filter.
loadStoredFilters(stored) ==
  LET fromStorage == getStoredFilters(stored) IN
  [productId |-> IF fromStorage.productId # "" THEN fromStorage.productId ELSE "",
   locationId |-> IF fromStorage.locationId # "" THEN fromStorage.locationId ELSE "",
   customerId |-> IF fromStorage.customerId # "" THEN fromStorage.customerId ELSE ""]

\* saveFiltersToStorage: setItem either stores the record or throws, and the
\* catch block leaves the item as it was.
saveFiltersToStorage(stored, newFilters, ok) == IF ok THEN <<newFilters>> ELSE stored

\* The argument of fetchChartData: filter || undefined.
chartParamsOf(f) ==
  [product_id |-> IF f.productId = "" THEN "undefined" ELSE f.productId,
   location_id |-> IF f.locationId = "" THEN "undefined" ELSE f.locationId,
   customer_id |-> IF f.customerId = "" THEN "undefined" ELSE f.customerId]

(***************************************************************************)
(* InventoryProjectionsChartService.combineInventoryAndForecastData.  A    *)
(* date is a day index counted from 1 January of year 0; the month string  *)
(* 'YYYY-MM' is the number 12 * year + month, which localeCompare orders   *)
(* as the strings.  Values are whole units.                                *)
(***************************************************************************)

\* new Date(date).toISOString().slice(0, 7)
monthKeyOf(date) == (date \div DaysPerYear) * 12 + monthOfDate(date)

RECURSIVE addToMonth(_, _, _)
\* if (!acc[month]) acc[month] = 0; acc[month] += amount, the keys of acc
\* kept in the order of their insertion.
addToMonth(acc, month, amount) ==
  IF acc = <<>> THEN <<[month |-> month, total |-> 0 + amount]>>
  ELSE IF Head(acc).month = month
       THEN <<[Head(acc) EXCEPT !.total = @ + amount]>> \o Tail(acc)
       ELSE <<Head(acc)>> \o addToMonth(Tail(acc), month, amount)

RECURSIVE inventoryByMonth(_, _)
inventoryByMonth(items, acc) ==
  IF items = <<>> THEN acc
  ELSE inventoryByMonth(Tail(items),
         addToMonth(acc, monthKeyOf(Head(items).period_date), orZero(Head(items).value)))

RECURSIVE forecastByMonth(_, _)
forecastByMonth(items, acc) ==
  IF items = <<>> THEN acc
  ELSE forecastByMonth(Tail(items),
         addToMonth(acc, monthKeyOf(Head(items).postdate), orZero(Head(items).forecast)))

\* byMonth[month] || { total: 0 }
totalOfMonth(byMonth, month) ==
  LET hit(e) == e.month = month
      found == SelectSeq(byMonth, hit)
  IN IF found = <<>> THEN 0 ELSE found[1].total

\* Array.from(new Set([...keys of inventoryByMonth, ...keys of forecastByMonth]))
allMonths(inv, fc) ==
  LET isNew(e) == \A i \in 1..Len(inv) : inv[i].month # e.month
      extra == SelectSeq(fc, isNew)
  IN [i \in 1..(Len(inv) + Len(extra)) |->
        IF i <= Len(inv) THEN inv[i].month ELSE extra[i - Len(inv)].month]

\* Mutant: the forecasted demand is added to the inventory.
projectedEndingOfSum(current_inventory, forecasted_demand) ==
  current_inventory + forecasted_demand

\* const projectedEnding = inventory.current_inventory - forecast.forecasted_demand
projectedEndingOf(current_inventory, forecasted_demand) ==
  current_inventory - forecasted_demand

RECURSIVE insertByMonth(_, _)
insertByMonth(sorted, row) ==
  IF sorted = <<>> THEN <<row>>
  ELSE IF row.projection_month < Head(sorted).projection_month THEN <<row>> \o sorted
  ELSE <<Head(sorted)>> \o insertByMonth(Tail(sorted), row)

RECURSIVE sortByMonth(_, _)
\* .sort((a, b) => a.projection_month.localeCompare(b.projection_month))
sortByMonth(rows, acc) ==
  IF rows = <<>> THEN acc
  ELSE sortByMonth(Tail(rows), insertByMonth(acc, Head(rows)))

combineInventoryAndForecastData(invRows, fcRows) ==
  LET inv == inventoryByMonth(invRows, <<>>)
      fc == forecastByMonth(fcRows, <<>>)
      months == allMonths(inv, fc)
      rowOf(month) ==
        [projection_month |-> month,
         product_id |-> IF invRows = <<>> THEN "" ELSE invRows[1].product_id,
         location_id |-> IF invRows = <<>> THEN "" ELSE invRows[1].location_id,
         forecasted_demand |-> totalOfMonth(fc, month),
         projected_ending_inventory |->
           projectedEndingOf(totalOfMonth(inv, month), totalOfMonth(fc, month))]
  IN sortByMonth([i \in 1..Len(months) |-> rowOf(months[i])], <<>>)

(***************************************************************************)
(* Inputs                                                                  *)
(***************************************************************************)

SeqsUpTo(S, n) == UNION {[1..k -> S] : k \in 0..n}

\* Clocks: 1 March 06:00 and 18:00 UTC, 30 March 12:00 UTC, 31 March
\* 18:00 UTC read in a zone six hours ahead (1 April 00:00 local time),
\* 27 July 06:00 UTC and 27 December 06:00 UTC.
Clocks ==
  {[day |-> 59, tod |-> 1, tz |-> 0], [day |-> 59, tod |-> 3, tz |-> 0],
   [day |-> 88, tod |-> 2, tz |-> 0], [day |-> 89, tod |-> 3, tz |-> 1],
   [day |-> 207, tod |-> 1, tz |-> 0], [day |-> 360, tod |-> 1, tz |-> 0]}

\* The observation values of one series, in period order.
ObsValueLists ==
  {<<>>, <<NULL>>, <<0 - 3>>, <<2>>, <<2, 2>>, <<20, NULL>>, <<20, 20>>, <<1000>>}

ObsLists(id) ==
  {[i \in 1..Len(vs) |-> [series_id |-> id, value |-> vs[i]]] : vs \in ObsValueLists}

\* Forecast points as <<days after today, forecast>>.
ForecastPoints ==
  {<<0, 0>>, <<0, NULL>>, <<0, 50>>, <<1, 50>>, <<1, 0 - 2>>, <<3, 5>>}

Horizons == {0 - 1, 0, 1, 2, 6, 7, 10}

ObsRows(ids, values) == [series_id : ids, value : values]

ForecastRows(clock, products, locations, points) ==
  {[product_id |-> p, location_id |-> l, postdate |-> clock.day + pt[1],
    forecast |-> pt[2]] : p \in products, l \in locations, pt \in points}

NoProjections == [called |-> FALSE, projectionDays |-> 0, days |-> <<>>]
NoSummary == [called |-> FALSE, value |-> getProjectionSummary(<<>>)]
NoClassified ==
  [called |-> FALSE, projectedInventory |-> 0, enhancedSafetyStock |-> 0,
   reorderPoint |-> 0, status |-> "none"]
NoParams == [product_id |-> NoFilter, location_id |-> NoFilter, projection_days |-> NULL]
NoResults ==
  [called |-> FALSE, rejected |-> FALSE, error |-> "none", params |-> NoParams,
   value |-> <<>>]

\* A call of calculateProjections: pc is the query it awaits ("idle" before
\* the call, "done" and "rejected" once settled), fetched the queries that
\* have returned, error the error a query returned, timelines the number of
\* invocations of calculateInventoryTimeline.
NoCall ==
  [pc |-> "idle", params |-> NoParams, fetched |-> {}, error |-> "none",
   timelines |-> 0]

EngineIdle ==
  /\ observations = <<>>
  /\ forecasts = <<>>
  /\ projections = NoProjections
  /\ summary = NoSummary

ServiceIdle ==
  /\ inventorySeries = <<>>
  /\ inventoryData = <<>>
  /\ forecastData = <<>>
  /\ call = NoCall
  /\ results = NoResults

(***************************************************************************)
(* Spec: the engine applied to one series, calculateInventoryTimeline      *)
(* followed by getProjectionSummary.                                       *)
(***************************************************************************)

NoMonthlyData == [called |-> FALSE, rows |-> <<>>]

ChartIdle ==
  /\ chartInventoryData = <<>>
  /\ chartForecastData = <<>>
  /\ monthlyData = NoMonthlyData

WorkbenchIdle ==
  /\ mounted = FALSE
  /\ filters = NoFilters
  /\ storedFilters = <<>>
  /\ lastSaveOk = TRUE
  /\ chartParams = chartParamsOf(NoFilters)

NetworkIdle ==
  /\ dbNodes = <<>>
  /\ dbNodeTypes = <<>>
  /\ dbRelationships = <<>>
  /\ nodes = <<>>
  /\ edges = <<>>
  /\ nodesSig = nodesSignature(<<>>, <<>>)
  /\ edgesSig = relsSignature(<<>>)

UiIdle == NetworkIdle /\ WorkbenchIdle /\ ChartIdle

Init ==
  /\ now \in Clocks
  /\ observations \in ObsLists(1)
  /\ forecasts \in SeqsUpTo(ForecastRows(now, {"p1"}, {"l1"}, ForecastPoints),
                             MaxForecasts)
  /\ projections = NoProjections
  /\ summary = NoSummary
  /\ classified = NoClassified
  /\ ServiceIdle
  /\ UiIdle

Project(h) ==
  /\ ~projections.called
  /\ projections' = [called |-> TRUE, projectionDays |-> h,
                     days |-> calculateInventoryTimeline(now, observations, forecasts, h)]
  /\ forecasts' = forecastsAfterTimeline(now, forecasts, h)
  /\ UNCHANGED <<now, observations, summary, classified, serviceVars, uiVars>>

Summarize ==
  /\ projections.called
  /\ ~summary.called
  /\ summary' = [called |-> TRUE, value |-> getProjectionSummary(projections.days)]
  /\ UNCHANGED <<now, observations, forecasts, projections, classified, serviceVars, uiVars>>

Next ==
  \/ \E h \in Horizons : Project(h)
  \/ Summarize

Spec == Init /\ [][Next]_vars

(***************************************************************************)
(* SpecStatus: determineEnhancedInventoryStatus applied to drawn arguments *)
(* (in 1/Scale units: 400 is 10 units, 4000 is 100 units).                 *)
(***************************************************************************)

StatusInventories ==
  {0 - 40, 0, 1, 199, 200, 201, 400, 401, 1999, 2000, 2001, 4000, 4001, 4040}
StatusSafetyStocks == {400, 401, 4000}
StatusReorderPoints == {0, 600, 6000}

InitStatus ==
  /\ now = [day |-> 59, tod |-> 1, tz |-> 0]
  /\ EngineIdle
  /\ classified = NoClassified
  /\ ServiceIdle
  /\ UiIdle

Classify(p, s, r) ==
  /\ ~classified.called
  /\ classified' = [called |-> TRUE, projectedInventory |-> p,
                    enhancedSafetyStock |-> s, reorderPoint |-> r,
                    status |-> determineEnhancedInventoryStatus(p, s, r)]
  /\ UNCHANGED <<now, observations, forecasts, projections, summary, serviceVars, uiVars>>

NextStatus ==
  \E p \in StatusInventories, s \in StatusSafetyStocks, r \in StatusReorderPoints :
     Classify(p, s, r)

SpecStatus == InitStatus /\ [][NextStatus]_vars

(***************************************************************************)
(* SpecService: calculateProjections over the three tables.                *)
(***************************************************************************)

SeriesTables ==
  LET s1 == [id |-> 1, product_id |-> "p1", location_id |-> "l1"]
      s2 == [id |-> 2, product_id |-> "p2", location_id |-> "l1"]
  IN {<<>>, <<s1>>, <<s1, s2>>}

\* Table rows: forecasts of yesterday and of tomorrow.
TableForecastPoints == {<<0 - 1, 5>>, <<1, 5>>}

ParamSets ==
  [product_id : {NoFilter, "p1"}, location_id : {NoFilter},
   projection_days : {NULL, 0 - 1, 0, 2}]

\* The three queries, in the order in which they are awaited.
Queries == <<"inventory_series", "inventory_series_data", "forecast">>

InitService ==
  /\ now = [day |-> 59, tod |-> 3, tz |-> 0]
  /\ EngineIdle
  /\ classified = NoClassified
  /\ inventorySeries \in SeriesTables
  /\ inventoryData \in SeqsUpTo(ObsRows({1, 2}, {20}), MaxObs)
  /\ forecastData \in SeqsUpTo(ForecastRows(now, {"p1", "p2"}, {"l1"},
                                              TableForecastPoints), MaxForecasts)
  /\ call = NoCall
  /\ results = NoResults
  /\ UiIdle

\* Mutant: the error of the inventory_series_data query is not rethrown.
rethrownExceptData(query, failed) == failed /\ query # "inventory_series_data"

\* if (inventoryError) throw inventoryError, and the same for the two
\* other queries: the catch block rethrows, so the call rejects.
rethrown(query, failed) == failed

\* The call settles: it rejects with the error, or resolves to the value.
Rejects(error) ==
  results' = [called |-> TRUE, rejected |-> TRUE, error |-> error,
              params |-> call.params, value |-> <<>>]

Resolves(value) ==
  results' = [called |-> TRUE, rejected |-> FALSE, error |-> "none",
              params |-> call.params, value |-> value]

\* calculateProjections is called: the inventory_series query is issued.
CalculateProjections(params) ==
  /\ call.pc = "idle"
  /\ call' = [call EXCEPT !.pc = "inventory_series", !.params = params]
  /\ UNCHANGED <<now, engineVars, inventorySeries, inventoryData, forecastData, results, uiVars>>

\* A query returns, with its rows or with an error.  After inventory_series
\* an empty result resolves the call to []; after forecast the timelines of
\* all series are computed and the call resolves.
QueryReturns(q, failed) ==
  /\ call.pc = Queries[q]
  /\ LET series == selectSeries(inventorySeries, call.params)
         returned == [call EXCEPT !.fetched = @ \cup {Queries[q]},
                                  !.error = IF failed THEN Queries[q] ELSE @]
     IN IF rethrown(Queries[q], failed)
        THEN /\ call' = [returned EXCEPT !.pc = "rejected"]
             /\ Rejects(Queries[q])
        ELSE IF q = 1 /\ series = <<>>
        THEN /\ call' = [returned EXCEPT !.pc = "done"]
             /\ Resolves(<<>>)
        ELSE IF q < Len(Queries)
        THEN /\ call' = [returned EXCEPT !.pc = Queries[q + 1]]
             /\ UNCHANGED results
        ELSE /\ call' = [returned EXCEPT !.pc = "done", !.timelines = Len(series)]
             /\ Resolves(calculateProjections(now, inventorySeries, inventoryData,
                                               forecastData, call.params))
  /\ UNCHANGED <<now, engineVars, inventorySeries, inventoryData, forecastData, uiVars>>

NextService ==
  \/ \E params \in ParamSets : CalculateProjections(params)
  \/ \E q \in 1..Len(Queries), failed \in BOOLEAN : QueryReturns(q, failed)

SpecService == InitService /\ [][NextService]_vars

(***************************************************************************)
(* SpecNetwork: SupplyNetworkFlow mounted, the rows of the database being  *)
(* refetched and the user removing nodes and edges of the local lists.     *)
(***************************************************************************)

MaxNodes == 2
MaxRelationships == 1

\* Lists of at most n rows with distinct ids.
RowLists(rows, n) ==
  {l \in SeqsUpTo(rows, n) : \A i, j \in 1..Len(l) : l[i].id = l[j].id => i = j}

DbNodeLists ==
  RowLists([id : 1..MaxNodes, node_name : {"A", "B"}, node_type_id : {1},
            status : {"active"}], MaxNodes)

DbNodeTypeLists ==
  {<<[id |-> 1, type_code |-> "warehouse"]>>, <<[id |-> 1, type_code |-> "factory"]>>}

DbRelationshipLists ==
  RowLists([id : 1..MaxRelationships, source_node_id : {1}, target_node_id : {2},
            status : {"active", "inactive"}, lead_time_days : {3},
            primary_transport_cost : {NULL}], MaxRelationships)

\* The component after its mount: the rows the hook already holds are shown,
\* the node types are still being fetched.
InitNetwork ==
  /\ now = [day |-> 59, tod |-> 1, tz |-> 0]
  /\ EngineIdle
  /\ classified = NoClassified
  /\ ServiceIdle
  /\ WorkbenchIdle
  /\ ChartIdle
  /\ dbNodes \in {<<>>, <<[id |-> 1, node_name |-> "A", node_type_id |-> 1,
                            status |-> "active"]>>}
  /\ dbNodeTypes = <<>>
  /\ dbRelationships = <<>>
  /\ nodes = builtFlowNodes(dbNodes, dbNodeTypes)
  /\ edges = builtFlowEdges(dbRelationships)
  /\ nodesSig = nodesSignature(dbNodes, dbNodeTypes)
  /\ edgesSig = relsSignature(dbRelationships)

\* useSupplyNetwork delivers new node rows: render, then the sync effect.
NodesFetched(rows) ==
  /\ rows # dbNodes
  /\ dbNodes' = rows
  /\ nodes' = nodesAfterRender(nodes, nodesSig, rows, dbNodeTypes)
  /\ nodesSig' = nodesSignature(rows, dbNodeTypes)
  /\ UNCHANGED <<now, engineVars, serviceVars, workbenchVars, chartVars, dbNodeTypes, dbRelationships,
                 edges, edgesSig>>

\* The node types, fetched once after the mount, arrive.
NodeTypesFetched(types) ==
  /\ dbNodeTypes = <<>>
  /\ dbNodeTypes' = types
  /\ nodes' = nodesAfterRender(nodes, nodesSig, dbNodes, types)
  /\ nodesSig' = nodesSignature(dbNodes, types)
  /\ UNCHANGED <<now, engineVars, serviceVars, workbenchVars, chartVars, dbNodes, dbRelationships, edges, edgesSig>>

\* useSupplyNetwork delivers new relationship rows.
RelationshipsFetched(rows) ==
  /\ rows # dbRelationships
  /\ dbRelationships' = rows
  /\ edges' = edgesAfterRender(edges, edgesSig, rows)
  /\ edgesSig' = relsSignature(rows)
  /\ UNCHANGED <<now, engineVars, serviceVars, workbenchVars, chartVars, dbNodes, dbNodeTypes, nodes, nodesSig>>

\* handleNodesChange with the removal of the k-th local node.
HandleNodesChange(k) ==
  /\ k \in 1..Len(nodes)
  /\ nodes' = removeAt(nodes, k)
  /\ UNCHANGED <<now, engineVars, serviceVars, workbenchVars, chartVars, dbNodes, dbNodeTypes, dbRelationships,
                 edges, nodesSig, edgesSig>>

\* handleEdgesChange with the removal of the k-th local edge.
HandleEdgesChange(k) ==
  /\ k \in 1..Len(edges)
  /\ edges' = removeAt(edges, k)
  /\ UNCHANGED <<now, engineVars, serviceVars, workbenchVars, chartVars, dbNodes, dbNodeTypes, dbRelationships,
                 nodes, nodesSig, edgesSig>>

NextNetwork ==
  \/ \E rows \in DbNodeLists : NodesFetched(rows)
  \/ \E types \in DbNodeTypeLists : NodeTypesFetched(types)
  \/ \E rows \in DbRelationshipLists : RelationshipsFetched(rows)
  \/ \E k \in 1..MaxNodes : HandleNodesChange(k)
  \/ \E k \in 1..MaxRelationships : HandleEdgesChange(k)

SpecNetwork == InitNetwork /\ [][NextNetwork]_vars

(***************************************************************************)
(* SpecWorkbench: SupplyWorkbench mounted and unmounted, with selections   *)
(* and clears of the filters; every handler is followed by the render and  *)
(* the effects it causes.                                                  *)
(***************************************************************************)

ProductIds == {"p1", "p2"}
LocationIds == {"l1"}
CustomerIds == {"c1"}

\* The filters a previous session may have stored.
StoredFilterSets ==
  [productId : ProductIds \cup {""}, locationId : LocationIds \cup {""},
   customerId : CustomerIds \cup {""}]

InitWorkbench ==
  /\ now = [day |-> 59, tod |-> 1, tz |-> 0]
  /\ EngineIdle
  /\ classified = NoClassified
  /\ ServiceIdle
  /\ NetworkIdle
  /\ ChartIdle
  /\ mounted = FALSE
  /\ filters = NoFilters
  /\ storedFilters \in {<<>>} \cup {<<f>> : f \in StoredFilterSets}
  /\ lastSaveOk = TRUE
  /\ chartParams = chartParamsOf(NoFilters)

\* A handler sets the filters and saves them; the render that follows runs
\* the fetch effect with the new filters.
SetAndSave(newFilters, ok) ==
  /\ filters' = newFilters
  /\ storedFilters' = saveFiltersToStorage(storedFilters, newFilters, ok)
  /\ lastSaveOk' = ok
  /\ chartParams' = chartParamsOf(newFilters)
  /\ UNCHANGED <<now, engineVars, serviceVars, networkVars, chartVars, mounted>>

\* The component mounts: the filters start empty, the mount effect loads the
\* stored ones and the fetch effect runs with the filters of the last render.
Mount ==
  /\ ~mounted
  /\ mounted' = TRUE
  /\ filters' = loadStoredFilters(storedFilters)
  /\ chartParams' = chartParamsOf(filters')
  /\ lastSaveOk' = TRUE
  /\ UNCHANGED <<now, engineVars, serviceVars, networkVars, chartVars, storedFilters>>

\* The component unmounts: its state is dropped.
Unmount ==
  /\ mounted
  /\ mounted' = FALSE
  /\ filters' = NoFilters
  /\ UNCHANGED <<now, engineVars, serviceVars, networkVars, chartVars, storedFilters, lastSaveOk,
                 chartParams>>

HandleProductSelect(productId, ok) ==
  /\ mounted
  /\ SetAndSave([filters EXCEPT !.productId = productId], ok)

HandleLocationSelect(locationId, ok) ==
  /\ mounted
  /\ SetAndSave([filters EXCEPT !.locationId = locationId], ok)

HandleCustomerSelect(customerId, ok) ==
  /\ mounted
  /\ SetAndSave([filters EXCEPT !.customerId = customerId], ok)

\* The clear button of the location, shown while a location is selected.
ClearLocation(ok) ==
  /\ mounted
  /\ filters.locationId # ""
  /\ SetAndSave([filters EXCEPT !.locationId = ""], ok)

\* The clear button of the customer, shown while a customer is selected.
ClearCustomer(ok) ==
  /\ mounted
  /\ filters.customerId # ""
  /\ SetAndSave([filters EXCEPT !.customerId = ""], ok)

\* The clear-all button, shown while some filter is selected.
HandleClearFilters(ok) ==
  /\ mounted
  /\ filters # NoFilters
  /\ SetAndSave(NoFilters, ok)

NextWorkbench ==
  \/ Mount
  \/ Unmount
  \/ \E productId \in ProductIds, ok \in BOOLEAN : HandleProductSelect(productId, ok)
  \/ \E locationId \in LocationIds, ok \in BOOLEAN : HandleLocationSelect(locationId, ok)
  \/ \E customerId \in CustomerIds, ok \in BOOLEAN : HandleCustomerSelect(customerId, ok)
  \/ \E ok \in BOOLEAN : ClearLocation(ok)
  \/ \E ok \in BOOLEAN : ClearCustomer(ok)
  \/ \E ok \in BOOLEAN : HandleClearFilters(ok)

SpecWorkbench == InitWorkbench /\ [][NextWorkbench]_vars

(***************************************************************************)
(* SpecChart: combineInventoryAndForecastData applied to drawn rows.       *)
(***************************************************************************)

\* 31 January and 1 February of year 0, 1 January of year 1.
ChartDates == {30, 31, 365}

ChartInventoryRows ==
  [period_date : ChartDates, value : {NULL, 2}, product_id : {"p1"}, location_id : {"l1"}]

ChartForecastRows == [postdate : ChartDates, forecast : {NULL, 5}]

InitChart ==
  /\ now = [day |-> 59, tod |-> 1, tz |-> 0]
  /\ EngineIdle
  /\ classified = NoClassified
  /\ ServiceIdle
  /\ NetworkIdle
  /\ WorkbenchIdle
  /\ chartInventoryData \in SeqsUpTo(ChartInventoryRows, MaxObs)
  /\ chartForecastData \in SeqsUpTo(ChartForecastRows, MaxForecasts)
  /\ monthlyData = NoMonthlyData

CombineInventoryAndForecastData ==
  /\ ~monthlyData.called
  /\ monthlyData' =
       [called |-> TRUE,
        rows |-> combineInventoryAndForecastData(chartInventoryData, chartForecastData)]
  /\ UNCHANGED <<now, engineVars, serviceVars, networkVars, workbenchVars,
                 chartInventoryData, chartForecastData>>

NextChart == CombineInventoryAndForecastData

SpecChart == InitChart /\ [][NextChart]_vars

(***************************************************************************)
(* Properties                                                              *)
(***************************************************************************)

Days == projections.days

\* Every forecast value is null or not negative.
NonNegativeForecasts ==
  \A k \in 1..Len(forecasts) : forecasts[k].forecast = NULL \/ forecasts[k].forecast >= 0

\* Every forecast point has the value c.
ConstantForecast(c) ==
  /\ forecasts # <<>>
  /\ \A k \in 1..Len(forecasts) : forecasts[k].forecast = c

\* Every projected day falls in March, where the seasonal factor is 1.0.
PinnedToMarch ==
  \A d \in 0..projections.projectionDays :
     monthOfDate(localDate(now, currentDateTime(now, d))) = 3

\* C1: for every horizon h >= 0 the projection has exactly h + 1 entries,
\* and entry d + 1 is day d: its date is today plus d days.
C1_LengthIsHorizonPlusOne ==
  (projections.called /\ projections.projectionDays >= 0) =>
     /\ Len(Days) = projections.projectionDays + 1
     /\ \A i \in 1..Len(Days) : Days[i].date = now.day + (i - 1)

C1_Witness ==
  /\ projections.called
  /\ projections.projectionDays = 10
  /\ Len(Days) = 11

\* C2: calculateProjections called with projection_days = 0 resolves to
\* single-entry projections (day 0 only) for every series.
C2_HorizonZeroSingleDay ==
  (results.called /\ ~results.rejected /\ results.params.projection_days = 0) =>
     \A i \in 1..Len(results.value) : Len(results.value[i].projections) = 1

\* C3: a series without inventory observations gets an empty projection.
C3_EmptySeriesEmptyProjection ==
  (results.called /\ ~results.rejected) =>
     \A i \in 1..Len(results.value) :
        (\A k \in 1..Len(inventoryData) :
            inventoryData[k].series_id
              # selectSeries(inventorySeries, results.params)[i].id)
        => results.value[i].projections = <<>>

\* C4 as stated: for any forecast series, cumulative_demand never decreases
\* from one day to the next.
C4_CumulativeMonotone ==
  projections.called =>
     \A i \in 1..(Len(Days) - 1) :
        Days[i + 1].cumulative_demand >= Days[i].cumulative_demand

\* C4 amended: when every forecast value is null or not negative,
\* cumulative_demand never decreases from one day to the next.
C4_CumulativeMonotoneNonNegative ==
  (projections.called /\ NonNegativeForecasts) =>
     \A i \in 1..(Len(Days) - 1) :
        Days[i + 1].cumulative_demand >= Days[i].cumulative_demand

C4_Witness ==
  /\ projections.called
  /\ NonNegativeForecasts
  /\ Len(Days) >= 3
  /\ Days[3].cumulative_demand > Days[2].cumulative_demand
  /\ Days[2].cumulative_demand > Days[1].cumulative_demand

\* C5: within one projection safety_stock is the same on every day,
\* reorder_point is the same on every day, and reorder_point is 1.5 times
\* safety_stock.
C5_ConstantThresholds ==
  projections.called =>
     \A i \in 1..Len(Days) :
        /\ Days[i].safety_stock = Days[1].safety_stock
        /\ Days[i].reorder_point = Days[1].reorder_point
        /\ 2 * Days[i].reorder_point = 3 * Days[i].safety_stock

C5_Witness ==
  /\ projections.called
  /\ Len(Days) >= 2
  /\ Days[1].safety_stock > DefaultSafetyStock * Scale

\* C6: with an empty forecast sequence every day has forecast_demand 0,
\* cumulative_demand 0 and safety_stock 10.
C6_EmptyForecasts ==
  (projections.called /\ forecasts = <<>>) =>
     \A i \in 1..Len(Days) :
        /\ Days[i].forecast_demand = 0
        /\ Days[i].cumulative_demand = 0
        /\ Days[i].safety_stock = 10 * Scale

C6_Witness ==
  /\ projections.called
  /\ forecasts = <<>>
  /\ Len(Days) >= 2

\* C7: the status is stockout if p <= 0, else critical if p <= s / 2, else
\* warning if p <= s, else optimal, whatever the reorder point; with s = 100:
\* p = 0 stockout, p = 50 critical, p = 100 warning, p = 101 optimal.
C7_StatusClassification ==
  classified.called =>
     LET p == classified.projectedInventory
         s == classified.enhancedSafetyStock
     IN /\ classified.status = "stockout" <=> p <= 0
        /\ classified.status = "critical" <=> (p > 0 /\ 2 * p <= s)
        /\ classified.status = "warning" <=> (2 * p > s /\ p > 0 /\ p <= s)
        /\ classified.status = "optimal" <=> (p > 0 /\ p > s)
        /\ s = 100 * Scale =>
             /\ p = 0 => classified.status = "stockout"
             /\ p = 50 * Scale => classified.status = "critical"
             /\ p = 100 * Scale => classified.status = "warning"
             /\ p = 101 * Scale => classified.status = "optimal"

C7_Witness ==
  /\ classified.called
  /\ classified.enhancedSafetyStock = 100 * Scale
  /\ classified.projectedInventory = 50 * Scale
  /\ classified.reorderPoint = 0
  /\ classified.status = "critical"

\* C8: on a day whose date is the postdate of a forecast point (the first
\* such point, with a forecast that is not null), the base demand is that
\* point's forecast, so forecast_demand is that forecast times the factor.
C8_ExactMatchWins ==
  projections.called =>
     \A i \in 1..Len(Days) : \A k \in 1..Len(forecasts) :
        (/\ forecasts[k].postdate = Days[i].date
         /\ forecasts[k].forecast # NULL
         /\ \A j \in 1..(k - 1) : forecasts[j].postdate # Days[i].date)
        => Days[i].forecast_demand
             = forecasts[k].forecast
                 * getSeasonalAdjustment(now, currentDateTime(now, i - 1))

\* C9 as stated: with a constant forecast c and every day in March, day d
\* has cumulative_demand c * d.
C9_CumulativeIsCTimesD ==
  \A c \in {0 - 2, 0, 5, 50} :
     (projections.called /\ ConstantForecast(c) /\ PinnedToMarch) =>
        \A i \in 1..Len(Days) : Days[i].cumulative_demand = c * (i - 1) * Scale

\* C9 amended: with a constant forecast c and every day in March, day d has
\* cumulative_demand c * (d + 1) and a projected inventory before
\* replenishment of baseline - c * (d + 1), which is the inventory of the day
\* when it is day 0 or above the reorder point; for baseline 1000, c = 50
\* and horizon 10, day 10 has cumulative_demand 550 and projected inventory
\* 450, safety_stock is 10, reorder_point is 15 and no day is replenished.
C9_CumulativeIsCTimesDPlusOne ==
  \A c \in {0 - 2, 0, 5, 50} :
     (projections.called /\ ConstantForecast(c) /\ PinnedToMarch) =>
        /\ \A i \in 1..Len(Days) :
              /\ Days[i].cumulative_demand = c * i * Scale
              /\ (i = 1 \/ Days[i].current_stock - c * i * Scale > Days[i].reorder_point)
                   => Days[i].projected_inventory
                        = Max(0, Days[i].current_stock - c * i * Scale)
        /\ (c = 50 /\ sumValues(observations) = 1000 /\ projections.projectionDays = 10) =>
              /\ Days[11].cumulative_demand = 550 * Scale
              /\ Days[11].projected_inventory = 450 * Scale
              /\ \A i \in 1..11 :
                    /\ Days[i].safety_stock = 10 * Scale
                    /\ Days[i].reorder_point = 15 * Scale
                    /\ Days[i].current_stock = 1000 * Scale
                    /\ Days[i].projected_inventory
                         = Days[i].current_stock - Days[i].cumulative_demand
                    /\ Days[i].projected_inventory > Days[i].reorder_point

C9_Witness ==
  /\ projections.called
  /\ ConstantForecast(50)
  /\ PinnedToMarch
  /\ sumValues(observations) = 1000
  /\ projections.projectionDays = 10
  /\ Len(Days) = 11

\* C10: on a non-empty projection riskLevel is high iff some day is a
\* stockout, otherwise medium iff more than 7 days are critical, otherwise
\* low; an all-optimal projection gives low with zero stockout, critical and
\* warning days.
C10_RiskLevel ==
  (summary.called /\ ~summary.value.isNull) =>
     LET anyStockout == \E i \in 1..Len(Days) : Days[i].status = "stockout"
         critical == Cardinality({i \in 1..Len(Days) : Days[i].status = "critical"})
         risk == summary.value.riskLevel
     IN /\ risk = "high" <=> anyStockout
        /\ risk = "medium" <=> (~anyStockout /\ critical > 7)
        /\ risk = "low" <=> (~anyStockout /\ critical <= 7)
        /\ (\A i \in 1..Len(Days) : Days[i].status = "optimal") =>
             /\ risk = "low"
             /\ summary.value.stockoutDays = 0
             /\ summary.value.criticalDays = 0
             /\ summary.value.warningDays = 0

C10_Witness ==
  /\ summary.called
  /\ ~summary.value.isNull
  /\ summary.value.riskLevel = "medium"
  /\ \A i \in 1..Len(Days) : Days[i].status # "stockout"

\* The number of days of the projection with the given status.
DaysWithStatus(st) == Cardinality({i \in 1..Len(Days) : Days[i].status = st})

\* C11: on a non-empty projection stockoutDays, criticalDays and warningDays
\* are the numbers of days with that status (together at most the length),
\* minInventory is the least emitted projected_inventory and totalDemand is
\* the cumulative_demand of the last day.
C11_SummaryCounts ==
  (summary.called /\ ~summary.value.isNull) =>
     /\ summary.value.stockoutDays = DaysWithStatus("stockout")
     /\ summary.value.criticalDays = DaysWithStatus("critical")
     /\ summary.value.warningDays = DaysWithStatus("warning")
     /\ summary.value.stockoutDays + summary.value.criticalDays
          + summary.value.warningDays <= Len(Days)
     /\ \A i \in 1..Len(Days) : summary.value.minInventory <= Days[i].projected_inventory
     /\ \E i \in 1..Len(Days) : summary.value.minInventory = Days[i].projected_inventory
     /\ summary.value.totalDemand = Days[Len(Days)].cumulative_demand

C11_Witness ==
  /\ summary.called
  /\ ~summary.value.isNull
  /\ Len(Days) >= 3
  /\ summary.value.stockoutDays >= 1
  /\ summary.value.stockoutDays < Len(Days)
  /\ summary.value.minInventory < Days[Len(Days)].projected_inventory
  /\ summary.value.totalDemand > Days[1].cumulative_demand

\* C12: a call of calculateProjections with projection_days < 0 that finds a
\* series is rejected and never invokes calculateInventoryTimeline.
C12_NegativeHorizonRejected ==
  (/\ call.pc \in {"done", "rejected"}
   /\ call.params.projection_days # NULL
   /\ call.params.projection_days < 0
   /\ selectSeries(inventorySeries, call.params) # <<>>)
  => (results.rejected /\ call.timelines = 0)

\* C14: a timeline is computed only after the three queries have returned
\* without error; when a query returns an error the call rejects with that
\* error, no timeline is computed and no result list is returned.
C14_FetchBeforeEngine ==
  /\ call.timelines > 0 =>
        /\ call.fetched = {Queries[q] : q \in 1..Len(Queries)}
        /\ call.error = "none"
  /\ call.error # "none" =>
        /\ call.pc = "rejected"
        /\ call.timelines = 0
        /\ results.called /\ results.rejected
        /\ results.error = call.error
        /\ results.value = <<>>
  /\ Len(results.value) > 0 => call.timelines = Len(results.value)

C14_Witness ==
  /\ call.pc = "rejected"
  /\ call.error = "forecast"
  /\ call.fetched = {"inventory_series", "inventory_series_data", "forecast"}
  /\ results.rejected
  /\ results.error = "forecast"

\* The first forecast point of the given date is point k.
FirstOfDate(k, date) ==
  /\ forecasts[k].postdate = date
  /\ \A j \in 1..(k - 1) : forecasts[j].postdate # date

\* The distance of forecast point k from the instant of day i.
DistanceOf(k, i) == Abs(postdateTime(forecasts[k].postdate) - currentDateTime(now, i - 1))

\* The inputs with every null replaced by 0.
ZeroedForecasts ==
  [k \in 1..Len(forecasts) |->
     [forecasts[k] EXCEPT !.forecast = IF @ = NULL THEN 0 ELSE @]]
ZeroedObservations ==
  [k \in 1..Len(observations) |->
     [observations[k] EXCEPT !.value = IF @ = NULL THEN 0 ELSE @]]

SameDayClocks ==
  {c \in {[now EXCEPT !.tod = tod] : tod \in 0..(QuartersPerDay - 1)} :
      localDate(c, currentDateTime(c, 0)) = localDate(now, currentDateTime(now, 0))}

\* C16: a run with the same observations, forecasts and horizon at any
\* other time of the same calendar day produces the same projection (stated
\* for positive forecasts on distinct dates and a baseline of 1000 units).
C16_SameDaySameProjection ==
  (/\ projections.called
   /\ \A k \in 1..Len(forecasts) : truthy(forecasts[k].forecast) /\ forecasts[k].forecast > 0
   /\ \A j, k \in 1..Len(forecasts) : forecasts[j].postdate = forecasts[k].postdate => j = k
   /\ currentInventoryOf(observations) = 1000 * Scale) =>
     \A c \in SameDayClocks :
        calculateInventoryTimeline(c, observations, forecasts,
                                   projections.projectionDays) = Days

\* The month of day i of the projection, as getMonth() + 1 gives it.
MonthOfDay(i) == monthOfDate(localDate(now, currentDateTime(now, i - 1)))

\* The base demand of day i of the projection (whole units).
BaseDemandOfDay(i) == getDailyDemand(forecasts, currentDateTime(now, i - 1))

\* C17: forecast_demand is the base demand times the factor of the day's
\* month: 1.2 in July, 1.0 in March, 1.3 in December, 0.9 in January; every
\* factor lies in [0.9, 1.3], with December the maximum and January the
\* minimum.
C17_SeasonalFactor ==
  /\ \A m \in 1..12 :
        /\ 9 * Scale <= 10 * seasonalFactors[m]
        /\ 10 * seasonalFactors[m] <= 13 * Scale
        /\ seasonalFactors[m] <= seasonalFactors[12]
        /\ seasonalFactors[1] <= seasonalFactors[m]
  /\ projections.called =>
        \A i \in 1..Len(Days) :
           LET month == MonthOfDay(i)
               base == BaseDemandOfDay(i)
           IN /\ Days[i].forecast_demand = base * seasonalFactors[month]
              /\ month = 7 => 10 * Days[i].forecast_demand = 12 * base * Scale
              /\ month = 3 => Days[i].forecast_demand = base * Scale
              /\ month = 12 => 10 * Days[i].forecast_demand = 13 * base * Scale
              /\ month = 1 => 10 * Days[i].forecast_demand = 9 * base * Scale

C17_Witness ==
  /\ projections.called
  /\ \E i \in 1..Len(Days) : MonthOfDay(i) = 7 /\ Days[i].forecast_demand = 60 * Scale
  /\ \E i \in 1..Len(Days) : MonthOfDay(i) = 8 /\ Days[i].forecast_demand > 0

\* The pre-replenishment projected inventory of day i of the projection.
PreReplenishment(i) == Days[i].current_stock - Days[i].cumulative_demand

\* The inventory of day i after the replenishment rule, as C18 states it.
AfterReplenishment(i) ==
  IF i - 1 > 0 /\ PreReplenishment(i) <= Days[i].reorder_point
  THEN PreReplenishment(i) + Max(0, 2 * Days[i].current_stock - PreReplenishment(i))
  ELSE PreReplenishment(i)

\* C18: on a day d > 0 with pre-replenishment inventory p <= reorder_point
\* the inventory used for status and output is p + max(0, 2 * baseline - p),
\* that is 2 * baseline when 2 * baseline > p; on day 0 and on a day with
\* p > reorder_point it is p.
C18_ReplenishmentRule ==
  projections.called =>
     \A i \in 1..Len(Days) :
        /\ Days[i].projected_inventory = Max(0, AfterReplenishment(i))
        /\ Days[i].status
             = determineEnhancedInventoryStatus(AfterReplenishment(i),
                  Days[i].safety_stock, Days[i].reorder_point)
        /\ (/\ i - 1 > 0
            /\ PreReplenishment(i) <= Days[i].reorder_point
            /\ 2 * Days[i].current_stock > PreReplenishment(i))
           => AfterReplenishment(i) = 2 * Days[i].current_stock

C18_Witness ==
  /\ projections.called
  /\ Len(Days) >= 2
  /\ Days[1].current_stock > 0
  /\ PreReplenishment(1) <= Days[1].reorder_point
  /\ Days[1].projected_inventory = Max(0, PreReplenishment(1))
  /\ \E i \in 2..Len(Days) :
        /\ PreReplenishment(i) <= Days[i].reorder_point
        /\ Days[i].projected_inventory = 2 * Days[i].current_stock
        /\ Days[i].projected_inventory # PreReplenishment(i)

\* The sum of the adjusted demand of the first i days of the projection.
SumDemandTo[i \in 0..Len(Days)] ==
  IF i = 0 THEN 0 ELSE SumDemandTo[i - 1] + Days[i].forecast_demand

\* C19: on every day the pre-replenishment inventory is the baseline minus
\* the sum of the adjusted demand of days 0..d, whatever was replenished on
\* earlier days: the emitted inventory is the replenishment rule applied to
\* that value.
C19_RestockNotCarried ==
  projections.called =>
     LET baseline == currentInventoryOf(observations) IN
     \A i \in 1..Len(Days) :
        /\ Days[i].current_stock = baseline
        /\ Days[i].cumulative_demand = SumDemandTo[i]
        /\ Days[i].projected_inventory
             = Max(0, replenished(baseline - Days[i].cumulative_demand,
                                  Days[i].reorder_point, baseline, i - 1))

C19_Witness ==
  /\ projections.called
  /\ \E i \in 2..(Len(Days) - 1) :
        /\ Days[i].projected_inventory = 2 * Days[i].current_stock
        /\ Days[i].projected_inventory > Days[i].current_stock - SumDemandTo[i]
        /\ Days[i + 1].forecast_demand > 0
        /\ Days[i].current_stock - SumDemandTo[i + 1]
             < Days[i].projected_inventory - Days[i + 1].forecast_demand

\* No forecast point has the date of day i of the projection.
NoExactMatch(i) == \A k \in 1..Len(forecasts) : forecasts[k].postdate # Days[i].date

\* The forecast points with a forecast that is not null.
NonNullPoints == {k \in 1..Len(forecasts) : forecasts[k].forecast # NULL}

\* The factor applied to the base demand of day i.
FactorOfDay(i) == getSeasonalAdjustment(now, currentDateTime(now, i - 1))

C21_EmittedInventoryClamped ==
  projections.called =>
     LET baseline == sumValues(observations) * Scale IN
     \A i \in 1..Len(Days) :
        LET p == AfterReplenishment(i) IN
        /\ Days[i].projected_inventory >= 0
        /\ p >= 0 => Days[i].projected_inventory = p
        /\ p < 0 => Days[i].projected_inventory = 0 /\ Days[i].status = "stockout"
        /\ Days[i].status
             = determineEnhancedInventoryStatus(p, Days[i].safety_stock,
                                                Days[i].reorder_point)
        /\ Days[i].current_stock = baseline

C21_Witness ==
  /\ projections.called
  /\ \E i \in 1..Len(Days) :
        /\ AfterReplenishment(i) < 0
        /\ Days[i].projected_inventory = 0
        /\ Days[i].current_stock > 0
  /\ \E i \in 1..Len(Days) : Days[i].projected_inventory > 0

\* The series the call fetched.
FetchedSeries == selectSeries(inventorySeries, call.params)

\* The rows of the two data tables that belong to the given series.
OwnInventoryData(s) ==
  LET own(r) == r.series_id = s.id IN SelectSeq(inventoryData, own)
OwnForecastData(s) ==
  LET own(f) == f.product_id = s.product_id /\ f.location_id = s.location_id
  IN SelectSeq(forecastData, own)

\* C22: a call that resolves returns one result per fetched series, in the
\* order of the fetch; the result of a series is the one computed from the
\* tables reduced to the rows of that series alone; without a matching
\* series the list is empty.
C22_OneResultPerSeries ==
  call.pc = "done" =>
     /\ Len(results.value) = Len(FetchedSeries)
     /\ \A i \in 1..Len(FetchedSeries) :
           /\ results.value[i].product_id = FetchedSeries[i].product_id
           /\ results.value[i].location_id = FetchedSeries[i].location_id
           /\ results.value[i].projections
                = calculateInventoryTimeline(now,
                    OwnInventoryData(FetchedSeries[i]),
                    selectForecasts(OwnForecastData(FetchedSeries[i]), NoParams, now),
                    effectiveProjectionDays(call.params.projection_days))

C22_Witness ==
  /\ call.pc = "done"
  /\ Len(results.value) = 2
  /\ \E r \in 1..Len(inventoryData) : inventoryData[r].series_id = 1
  /\ \E r \in 1..Len(inventoryData) : inventoryData[r].series_id = 2
  /\ Len(OwnForecastData(FetchedSeries[1])) = 1
  /\ Len(OwnForecastData(FetchedSeries[2])) = 1
  /\ Len(results.value[1].projections) > 0
  /\ results.value[1].product_id # results.value[2].product_id

\* C23: day d is emitted with the date today + d, and the factor applied to
\* its base demand is the factor of the month of that emitted date.
C23_FactorOfEmittedDate ==
  projections.called =>
     \A i \in 1..Len(Days) :
        /\ Days[i].date = toISODate(currentDateTime(now, 0)) + (i - 1)
        /\ Days[i].forecast_demand
             = BaseDemandOfDay(i) * seasonalFactors[monthOfDate(Days[i].date)]

\* C24: whenever the signature of the node rows and node types changes, the
\* local nodes afterwards are the nodes built from the new rows; likewise
\* for the edges and the signature of the relationships.
C24_LocalListsFollowDatabase ==
  [][/\ nodesSignature(dbNodes', dbNodeTypes') # nodesSignature(dbNodes, dbNodeTypes)
        => nodes' = builtFlowNodes(dbNodes', dbNodeTypes')
     /\ relsSignature(dbRelationships') # relsSignature(dbRelationships)
        => edges' = builtFlowEdges(dbRelationships')]_vars

\* C25: an emitted projected_inventory is 0 exactly on the days with status
\* stockout.
C25_ZeroIffStockout ==
  projections.called =>
     \A i \in 1..Len(Days) :
        (Days[i].projected_inventory = 0) <=> (Days[i].status = "stockout")

C25_Witness ==
  /\ projections.called
  /\ \E i \in 1..Len(Days) :
        Days[i].status = "stockout" /\ Days[i].projected_inventory = 0
  /\ \E i \in 1..Len(Days) :
        Days[i].status = "critical" /\ Days[i].projected_inventory > 0

\* Day i of the projection triggers the replenishment.
Triggered(i) == i - 1 > 0 /\ PreReplenishment(i) <= Days[i].reorder_point

\* C26: with a positive baseline and no negative forecast, once a day d > 0
\* triggers the replenishment every later day triggers it too, and each of
\* these days is emitted with projected_inventory 2 * baseline.
C26_RestockPersists ==
  (/\ projections.called
   /\ currentInventoryOf(observations) > 0
   /\ NonNegativeForecasts) =>
     LET baseline == currentInventoryOf(observations) IN
     \A i \in 1..Len(Days) :
        Triggered(i) =>
           \A j \in i..Len(Days) :
              /\ Triggered(j)
              /\ Days[j].projected_inventory = 2 * baseline

C26_Witness ==
  /\ projections.called
  /\ currentInventoryOf(observations) > 0
  /\ NonNegativeForecasts
  /\ \E i \in 3..(Len(Days) - 1) :
        /\ ~Triggered(i - 1)
        /\ Triggered(i)
        /\ Days[i - 1].projected_inventory < Days[i - 1].current_stock
        /\ Days[Len(Days)].projected_inventory = 2 * Days[i].current_stock

\* C27: with a positive baseline no day d > 0 has the status stockout, for
\* any forecasts and horizon; so the summary counts at most one stockout day
\* and its riskLevel is high only when day 0 is a stockout.
C27_NoStockoutAfterDayZero ==
  (projections.called /\ currentInventoryOf(observations) > 0) =>
     /\ \A i \in 2..Len(Days) : Days[i].status # "stockout"
     /\ (summary.called /\ ~summary.value.isNull) =>
           /\ summary.value.stockoutDays <= 1
           /\ summary.value.riskLevel = "high" => Days[1].status = "stockout"

C27_Witness ==
  /\ projections.called
  /\ summary.called
  /\ currentInventoryOf(observations) > 0
  /\ Len(Days) >= 3
  /\ Days[1].status = "stockout"
  /\ \A i \in 2..Len(Days) : PreReplenishment(i) < 0 /\ Days[i].status # "stockout"
  /\ summary.value.stockoutDays = 1
  /\ summary.value.riskLevel = "high"

\* C28: with a baseline <= 0 and no negative forecast every day of the
\* projection has the status stockout and projected_inventory 0.
C28_NoBaselineAllStockout ==
  (/\ projections.called
   /\ sumValues(observations) <= 0
   /\ NonNegativeForecasts) =>
     \A i \in 1..Len(Days) :
        Days[i].status = "stockout" /\ Days[i].projected_inventory = 0

C28_Witness ==
  /\ projections.called
  /\ sumValues(observations) < 0
  /\ NonNegativeForecasts
  /\ Len(Days) >= 3
  /\ \E i \in 2..Len(Days) :
        /\ PreReplenishment(i) < 2 * Days[i].current_stock
        /\ Days[i].status = "stockout"
        /\ Days[i].projected_inventory = 0

ChartMonths ==
  {monthKeyOf(chartInventoryData[i].period_date) : i \in 1..Len(chartInventoryData)}
    \cup {monthKeyOf(chartForecastData[i].postdate) : i \in 1..Len(chartForecastData)}

\* The sum of the observation values of a month, null as 0.
InventorySumOfMonth(month) ==
  LET sum[k \in 0..Len(chartInventoryData)] ==
        IF k = 0 THEN 0
        ELSE sum[k - 1]
               + (IF monthKeyOf(chartInventoryData[k].period_date) = month
                     /\ chartInventoryData[k].value # NULL
                  THEN chartInventoryData[k].value ELSE 0)
  IN sum[Len(chartInventoryData)]

\* The sum of the forecast values of a month, null as 0.
ForecastSumOfMonth(month) ==
  LET sum[k \in 0..Len(chartForecastData)] ==
        IF k = 0 THEN 0
        ELSE sum[k - 1]
               + (IF monthKeyOf(chartForecastData[k].postdate) = month
                     /\ chartForecastData[k].forecast # NULL
                  THEN chartForecastData[k].forecast ELSE 0)
  IN sum[Len(chartForecastData)]

\* C30: combineInventoryAndForecastData returns one row per month of either
\* input, in strictly ascending order of the month; forecasted_demand is the
\* sum of the forecasts of the month and projected_ending_inventory the sum
\* of the observation values of the month minus that demand, a month absent
\* from one input counting 0 for it.
C30_OneRowPerMonth ==
  monthlyData.called =>
     LET rows == monthlyData.rows IN
     /\ {rows[i].projection_month : i \in 1..Len(rows)} = ChartMonths
     /\ \A i \in 1..(Len(rows) - 1) : rows[i].projection_month < rows[i + 1].projection_month
     /\ \A i \in 1..Len(rows) :
           /\ rows[i].forecasted_demand = ForecastSumOfMonth(rows[i].projection_month)
           /\ rows[i].projected_ending_inventory
                = InventorySumOfMonth(rows[i].projection_month)
                    - ForecastSumOfMonth(rows[i].projection_month)

C30_Witness ==
  /\ monthlyData.called
  /\ Len(monthlyData.rows) = 2
  /\ Len(chartInventoryData) = 2
  /\ monthKeyOf(chartInventoryData[1].period_date) > monthKeyOf(chartInventoryData[2].period_date)
  /\ \E i \in 1..2 : monthlyData.rows[i].forecasted_demand = 10
  /\ \E i \in 1..2 :
        /\ monthlyData.rows[i].forecasted_demand = 0
        /\ monthlyData.rows[i].projected_ending_inventory = 2

====
